---- MODULE Spec2Model ----
(***************************************************************************)
(* State-machine model of arke-cdn-worker: the KV metadata store, the      *)
(* registration handler (POST /asset/:assetId), the retrieval handler      *)
(* (GET /asset/:assetId[/path]) and the variant utilities they call.       *)
(*                                                                         *)
(* Representation of JavaScript values:                                    *)
(*   - an optional field is a sequence of length <= 1: << >> is            *)
(*     `undefined` (the key is missing from the JSON), <<v>> is the value; *)
(*   - a JSON object used as a mapping (body.variants) is the sequence of  *)
(*     its entries [name, v] in insertion order, names distinct;           *)
(*   - truthiness follows JavaScript: undefined, "" , 0 and false are      *)
(*     falsy, every object is truthy.                                      *)
(* JSON.stringify followed by JSON.parse of a record of such values drops  *)
(* the undefined fields and returns the other fields unchanged, which in   *)
(* this representation is the same record; the KV store is therefore       *)
(* modelled as holding the record itself.  The timestamps created_at and   *)
(* updated_at are read by no handler and are left out.                     *)
(***************************************************************************)
EXTENDS Integers, Sequences, FiniteSets, TLC

VARIABLES kv,      \* ASSET_MAP: asset id -> << >> (no entry) or <<metadata>>
          pc,      \* "idle": no request in the worker; "done": a response is ready
          req,     \* the request being answered
          resp,    \* the response produced for req
          fnIn,    \* input of the utility function under test (SpecFn)
          fnOut,   \* its result (SpecFn)
          inflight, \* SpecConc: worker -> the registration it is running
          landed   \* SpecConc: asset id -> << >> or <<body>> of the request
                   \* whose ASSET_MAP.put was applied last

vars == <<kv, pc, req, resp, fnIn, fnOut, inflight, landed>>

-----------------------------------------------------------------------------
(* JavaScript value helpers *)

None == << >>

Some(v) == <<v>>

\* truthiness of an optional string: undefined and "" are falsy
TruthyStr(o) == o # None /\ o[1] # ""

\* truthiness of an optional number: undefined and 0 are falsy
TruthyNum(o) == o # None /\ o[1] # 0

\* truthiness of an optional boolean
TruthyBool(o) == o # None /\ o[1]

\* typeof x === 'number'
IsNumber(o) == o # None

\* keys of a JSON object, as a set
KeysOf(m) == {m[i].name : i \in DOMAIN m}

HasKey(m, k) == \E i \in DOMAIN m : m[i].name = k

\* m[k] for a key that is present
Get(m, k) == m[CHOOSE i \in DOMAIN m : m[i].name = k].v

-----------------------------------------------------------------------------
(* constants.ts *)

VARIANT_SIZES == [thumb |-> 200, medium |-> 1288, large |-> 2400]

VARIANT_NAMES == <<"thumb", "medium", "large", "original">>

DEFAULT_CONTENT_TYPE == "application/octet-stream"

CACHE_CONTROL == "public, max-age=31536000, immutable"

VariantNameSet == {VARIANT_NAMES[i] : i \in DOMAIN VARIANT_NAMES}

-----------------------------------------------------------------------------
(* utils/variants.ts *)

\* variant of isValidVariantName that leaves `original` out of the list
isValidVariantName_noOriginal(name) == name \in {"thumb", "medium", "large"}

isValidVariantName(name) == \E i \in DOMAIN VARIANT_NAMES : VARIANT_NAMES[i] = name

\* metadata.variants.<k> is truthy: the mapping exists and holds the key
\* (every value of the mapping is an object)
VariantTruthy(metadata, k) ==
    metadata.variants # None /\ HasKey(metadata.variants[1], k)

\* variant of calculateDefaultVariant that tries the small-original rule
\* before medium
calculateDefaultVariant_sizeFirst(metadata) ==
    IF TruthyStr(metadata.default_variant) THEN metadata.default_variant[1]
    ELSE IF metadata.variants = None THEN "original"
    ELSE IF /\ VariantTruthy(metadata, "original")
            /\ TruthyNum(metadata.original_width)
            /\ metadata.original_width[1] <= VARIANT_SIZES.medium THEN "original"
    ELSE IF VariantTruthy(metadata, "medium") THEN "medium"
    ELSE IF VariantTruthy(metadata, "large") THEN "large"
    ELSE IF VariantTruthy(metadata, "original") THEN "original"
    ELSE IF VariantTruthy(metadata, "thumb") THEN "thumb"
    ELSE "original"

calculateDefaultVariant(metadata) ==
    IF TruthyStr(metadata.default_variant) THEN metadata.default_variant[1]
    ELSE IF metadata.variants = None THEN "original"
    ELSE IF VariantTruthy(metadata, "medium") THEN "medium"
    ELSE IF /\ VariantTruthy(metadata, "original")
            /\ TruthyNum(metadata.original_width)
            /\ metadata.original_width[1] <= VARIANT_SIZES.medium THEN "original"
    ELSE IF VariantTruthy(metadata, "large") THEN "large"
    ELSE IF VariantTruthy(metadata, "original") THEN "original"
    ELSE IF VariantTruthy(metadata, "thumb") THEN "thumb"
    ELSE "original"

\* variant of fallbackChains whose thumb chain goes to original before medium
fallbackChains_originalFirst ==
    [thumb    |-> <<"thumb", "original", "medium">>,
     medium   |-> <<"medium", "original">>,
     large    |-> <<"large", "medium", "original">>,
     original |-> <<"original">>]

fallbackChains ==
    [thumb    |-> <<"thumb", "medium", "original">>,
     medium   |-> <<"medium", "original">>,
     large    |-> <<"large", "medium", "original">>,
     original |-> <<"original">>]

\* variant of WalkChain that looks at the first entry of the chain only
WalkChain_firstOnly(metadata, chain, i) ==
    IF i > Len(chain) \/ ~VariantTruthy(metadata, chain[1]) THEN [tag |-> "null"]
    ELSE [tag |-> "found",
          variant |-> Get(metadata.variants[1], chain[1]),
          actualVariant |-> chain[1]]

\* the for-loop of getVariantToServe over chain, from position i
RECURSIVE WalkChain(_, _, _)
WalkChain(metadata, chain, i) ==
    IF i > Len(chain) THEN [tag |-> "null"]
    ELSE IF VariantTruthy(metadata, chain[i])
         THEN [tag |-> "found",
               variant |-> Get(metadata.variants[1], chain[i]),
               actualVariant |-> chain[i]]
         ELSE WalkChain(metadata, chain, i + 1)

\* variant of getVariantToServe that serves the first registered variant
\* when the chain is exhausted
getVariantToServe_anyVariant(metadata, requestedVariant) ==
    IF metadata.variants = None THEN [tag |-> "null"]
    ELSE IF requestedVariant \notin DOMAIN fallbackChains THEN [tag |-> "throw"]
    ELSE LET walked == WalkChain(metadata, fallbackChains[requestedVariant], 1)
         IN  IF walked.tag = "null" /\ Len(metadata.variants[1]) > 0
             THEN [tag |-> "found",
                   variant |-> metadata.variants[1][1].v,
                   actualVariant |-> metadata.variants[1][1].name]
             ELSE walked

\* tag "null": returns null; "found": returns {variant, actualVariant};
\* "throw": fallbackChains[requestedVariant] is undefined and the for-of
\* over it raises a TypeError
getVariantToServe(metadata, requestedVariant) ==
    IF metadata.variants = None THEN [tag |-> "null"]
    ELSE IF requestedVariant \notin DOMAIN fallbackChains THEN [tag |-> "throw"]
    ELSE WalkChain(metadata, fallbackChains[requestedVariant], 1)

getVariantStorage(variant) ==
    IF TruthyStr(variant.r2_key) THEN Some([type |-> "r2", location |-> variant.r2_key[1]])
    ELSE IF TruthyStr(variant.url) THEN Some([type |-> "url", location |-> variant.url[1]])
    ELSE None

\* variant of hasVariants that does not look at is_image
hasVariants_anyAsset(metadata) ==
    /\ metadata.variants # None
    /\ Len(metadata.variants[1]) > 0

hasVariants(metadata) ==
    /\ metadata.is_image
    /\ metadata.variants # None
    /\ Len(metadata.variants[1]) > 0

-----------------------------------------------------------------------------
(* utils/validation.ts *)

\* variant of validateVariant that does not look at size_bytes
validateVariant_noSize(variant) ==
    LET hasStorage  == TruthyStr(variant.r2_key) \/ TruthyStr(variant.url)
        hasMetadata == IsNumber(variant.width) /\ IsNumber(variant.height)
    IN  hasStorage /\ hasMetadata

validateVariant(variant) ==
    LET hasStorage  == TruthyStr(variant.r2_key) \/ TruthyStr(variant.url)
        hasMetadata == /\ IsNumber(variant.width)
                       /\ IsNumber(variant.height)
                       /\ IsNumber(variant.size_bytes)
    IN  hasStorage /\ hasMetadata

\* the for-loop over Object.entries(body.variants): position of the first
\* entry that validateVariant rejects, 0 when there is none
FirstInvalid(entries) ==
    IF \E i \in DOMAIN entries : ~validateVariant(entries[i].v)
    THEN CHOOSE i \in DOMAIN entries :
            /\ ~validateVariant(entries[i].v)
            /\ \A j \in 1..(i - 1) : validateVariant(entries[j].v)
    ELSE 0

Valid == [valid |-> TRUE, error |-> "", variant |-> ""]

Invalid(msg, name) == [valid |-> FALSE, error |-> msg, variant |-> name]

\* variant of validateRegistrationBody without the test that rejects a
\* non-image body naming both locations
validateRegistrationBody_bothAllowed(body) ==
    IF ~TruthyBool(body.is_image) THEN
        IF ~TruthyStr(body.url) /\ ~TruthyStr(body.r2_key)
        THEN Invalid("Either url or r2_key is required", "")
        ELSE Valid
    ELSE IF body.variants # None THEN
        LET entries == body.variants[1]
            bad     == FirstInvalid(entries)
        IN  IF bad # 0
            THEN Invalid("Invalid variant: must have (r2_key or url) and (width, height, size_bytes)",
                         entries[bad].name)
            ELSE IF Len(entries) = 0
            THEN Invalid("Image assets with variants must have at least one variant", "")
            ELSE Valid
    ELSE IF ~TruthyStr(body.url) /\ ~TruthyStr(body.r2_key)
         THEN Invalid("Either url, r2_key, or variants is required", "")
         ELSE Valid

\* error is the message text; variant is the variant name interpolated
\* into it ("" when the message names none)
validateRegistrationBody(body) ==
    IF ~TruthyBool(body.is_image) THEN
        IF ~TruthyStr(body.url) /\ ~TruthyStr(body.r2_key)
        THEN Invalid("Either url or r2_key is required", "")
        ELSE IF TruthyStr(body.url) /\ TruthyStr(body.r2_key)
        THEN Invalid("Cannot specify both url and r2_key for non-image assets", "")
        ELSE Valid
    ELSE IF body.variants # None THEN
        LET entries == body.variants[1]
            bad     == FirstInvalid(entries)
        IN  IF bad # 0
            THEN Invalid("Invalid variant: must have (r2_key or url) and (width, height, size_bytes)",
                         entries[bad].name)
            ELSE IF Len(entries) = 0
            THEN Invalid("Image assets with variants must have at least one variant", "")
            ELSE Valid
    ELSE IF ~TruthyStr(body.url) /\ ~TruthyStr(body.r2_key)
         THEN Invalid("Either url, r2_key, or variants is required", "")
         ELSE Valid

-----------------------------------------------------------------------------
(* utils/response.ts *)

\* https://cdn.arke.institute/asset/${assetId}/${variant}
VariantUrl(assetId, variant) == <<"https://cdn.arke.institute/asset", assetId, variant>>

\* https://cdn.arke.institute/asset/${assetId}
CdnUrl(assetId) == <<"https://cdn.arke.institute/asset", assetId>>

\* variant of buildVariantUrls that lists the recognized variant names only
buildVariantUrls_recognizedOnly(assetId, availableVariants) ==
    [v \in availableVariants \cap VariantNameSet |-> VariantUrl(assetId, v)]

buildVariantUrls(assetId, availableVariants) ==
    [v \in availableVariants |-> VariantUrl(assetId, v)]

\* variant of buildAssetHeaders that sets Content-Length whenever a length
\* is passed, zero included
buildAssetHeaders_anyLength(contentType, contentLength, assetId, actualVariant, variantDimensions, originalDimensions) ==
    [ContentType         |-> contentType,
     CacheControl        |-> CACHE_CONTROL,
     XAssetId            |-> assetId,
     ContentLength       |-> contentLength,
     XVariant            |-> IF TruthyStr(actualVariant) THEN actualVariant ELSE None,
     XVariantDimensions  |-> variantDimensions,
     XOriginalDimensions |-> originalDimensions]

buildAssetHeaders(contentType, contentLength, assetId, actualVariant, variantDimensions, originalDimensions) ==
    [ContentType         |-> contentType,
     CacheControl        |-> CACHE_CONTROL,
     XAssetId            |-> assetId,
     ContentLength       |-> IF TruthyNum(contentLength) THEN contentLength ELSE None,
     XVariant            |-> IF TruthyStr(actualVariant) THEN actualVariant ELSE None,
     XVariantDimensions  |-> variantDimensions,
     XOriginalDimensions |-> originalDimensions]

-----------------------------------------------------------------------------
(* handlers/registration.ts *)

\* variant of BuildMetadata that takes storage_type from the presence of
\* body.url instead of its truthiness
BuildMetadata_urlPresent(body) ==
    [storage_type    |-> IF body.url # None THEN "url" ELSE "r2",
     url             |-> body.url,
     r2_key          |-> body.r2_key,
     content_type    |-> body.content_type,
     size_bytes      |-> body.size_bytes,
     is_image        |-> TruthyBool(body.is_image),
     original_width  |-> body.original_width,
     original_height |-> body.original_height,
     variants        |-> body.variants,
     default_variant |-> body.default_variant]

\* the metadata literal built from the body
BuildMetadata(body) ==
    [storage_type    |-> IF TruthyStr(body.url) THEN "url" ELSE "r2",
     url             |-> body.url,
     r2_key          |-> body.r2_key,
     content_type    |-> body.content_type,
     size_bytes      |-> body.size_bytes,
     is_image        |-> TruthyBool(body.is_image),
     original_width  |-> body.original_width,
     original_height |-> body.original_height,
     variants        |-> body.variants,
     default_variant |-> body.default_variant]

\* the metadata as written to KV: the default variant is filled in when the
\* record has variants and the body gave none
RegistrationMetadata(body) ==
    LET metadata == BuildMetadata(body)
    IN  IF hasVariants(metadata) /\ ~TruthyStr(metadata.default_variant)
        THEN [metadata EXCEPT !.default_variant = Some(calculateDefaultVariant(metadata))]
        ELSE metadata

\* `${metadata.default_variant}` in a template string
Interpolate(o) == IF o = None THEN "undefined" ELSE o[1]

\* variant of handleRegistration that writes the record before it looks at
\* the result of the validation
handleRegistration_putFirst(assetId, body) ==
    LET validation == validateRegistrationBody(body)
        metadata   == RegistrationMetadata(body)
    IN  IF ~validation.valid
        THEN [put      |-> Some(metadata),
              response |-> [status |-> 400, error |-> validation.error,
                            variant |-> validation.variant, accesses |-> << >>]]
        ELSE [put      |-> Some(metadata),
              response |->
                 [status       |-> 201,
                  error        |-> "",
                  accesses     |-> << >>,
                  assetId      |-> assetId,
                  cdnUrl       |-> CdnUrl(assetId),
                  storage_type |-> metadata.storage_type,
                  defaultUrl   |-> IF hasVariants(metadata)
                                   THEN Some(VariantUrl(assetId, Interpolate(metadata.default_variant)))
                                   ELSE None,
                  variants     |-> IF hasVariants(metadata)
                                   THEN Some(buildVariantUrls(assetId, KeysOf(metadata.variants[1])))
                                   ELSE None,
                  sourceUrl    |-> IF hasVariants(metadata) THEN None ELSE body.url,
                  r2_key       |-> IF hasVariants(metadata) THEN None ELSE body.r2_key]]

\* put: << >> when ASSET_MAP.put is not called, <<metadata>> when it is;
\* response: the JSON answer and its status
handleRegistration(assetId, body) ==
    LET validation == validateRegistrationBody(body)
        metadata   == RegistrationMetadata(body)
    IN  IF ~validation.valid
        THEN [put      |-> None,
              response |-> [status |-> 400, error |-> validation.error,
                            variant |-> validation.variant, accesses |-> << >>]]
        ELSE [put      |-> Some(metadata),
              response |->
                 [status       |-> 201,
                  error        |-> "",
                  accesses     |-> << >>,
                  assetId      |-> assetId,
                  cdnUrl       |-> CdnUrl(assetId),
                  storage_type |-> metadata.storage_type,
                  defaultUrl   |-> IF hasVariants(metadata)
                                   THEN Some(VariantUrl(assetId, Interpolate(metadata.default_variant)))
                                   ELSE None,
                  variants     |-> IF hasVariants(metadata)
                                   THEN Some(buildVariantUrls(assetId, KeysOf(metadata.variants[1])))
                                   ELSE None,
                  sourceUrl    |-> IF hasVariants(metadata) THEN None ELSE body.url,
                  r2_key       |-> IF hasVariants(metadata) THEN None ELSE body.r2_key]]

RegistrationFailed == [status |-> 500, error |-> "Registration failed", variant |-> "", accesses |-> << >>]

\* the try/catch around the handler: json is << >> when c.req.json()
\* rejects (the request body is not JSON) and <<body>> otherwise; putOk is
\* FALSE when ASSET_MAP.put rejects, in which case nothing is written
handleRegistrationCaught(assetId, json, putOk) ==
    IF json = None
    THEN [put |-> None, response |-> RegistrationFailed]
    ELSE LET out == handleRegistration(assetId, json[1])
         IN  IF out.put # None /\ ~putOk
             THEN [put |-> None, response |-> RegistrationFailed]
             ELSE out

\* variant of KvPut that keeps the variants, the default and the locations
\* of the record it replaces where the new record leaves them out
KvPut_merge(store, assetId, metadata) ==
    IF store[assetId] = None
    THEN [store EXCEPT ![assetId] = Some(metadata)]
    ELSE [store EXCEPT ![assetId] =
            Some([metadata EXCEPT
                    !.variants        = IF @ = None THEN store[assetId][1].variants ELSE @,
                    !.default_variant = IF @ = None THEN store[assetId][1].default_variant ELSE @,
                    !.url             = IF @ = None THEN store[assetId][1].url ELSE @,
                    !.r2_key          = IF @ = None THEN store[assetId][1].r2_key ELSE @])]

\* ASSET_MAP.put(assetId, JSON.stringify(metadata))
KvPut(store, assetId, metadata) == [store EXCEPT ![assetId] = Some(metadata)]

-----------------------------------------------------------------------------
(* handlers/retrieval.ts *)

\* trailingPath.split('/').filter(Boolean): a path is modelled as the
\* sequence of its '/'-separated segments, empty segments included
NonEmpty(s) == s # ""

pathParts(trailingPath) == SelectSeq(trailingPath, NonEmpty)

\* variant of firstPart that takes the last part of the path
firstPart_last(trailingPath) ==
    IF Len(pathParts(trailingPath)) > 0
    THEN pathParts(trailingPath)[Len(pathParts(trailingPath))]
    ELSE ""

\* pathParts[0] || ''
firstPart(trailingPath) ==
    IF Len(pathParts(trailingPath)) > 0 THEN pathParts(trailingPath)[1] ELSE ""

\* a || b || c || DEFAULT_CONTENT_TYPE over optional strings
FirstTruthy(a, b, c) ==
    IF TruthyStr(a) THEN a[1]
    ELSE IF TruthyStr(b) THEN b[1]
    ELSE IF TruthyStr(c) THEN c[1]
    ELSE DEFAULT_CONTENT_TYPE

\* variant of JsonError that reports what is not found as a server error
JsonError_notFoundAsFailure(status, error, requested, assetId, accesses) ==
    [status |-> IF status = 404 THEN 500 ELSE status, error |-> error,
     requested |-> requested, assetId |-> assetId, accesses |-> accesses,
     headers |-> None, body |-> None]

\* c.json(payload, status): error is the payload's error text, requested
\* and assetId the payload's other fields when it has them; accesses lists
\* the object-store calls made before answering
JsonError(status, error, requested, assetId, accesses) ==
    [status |-> status, error |-> error, requested |-> requested,
     assetId |-> assetId, accesses |-> accesses,
     headers |-> None, body |-> None]

\* variant of Streamed that sends no X-Variant header
Streamed_noVariantHeader(headers, access) ==
    [status |-> 200, error |-> "", requested |-> None, assetId |-> None,
     accesses |-> <<access>>, headers |-> Some([headers EXCEPT !.XVariant = None]),
     body |-> Some(access)]

\* new Response(body, {headers}): body names the object-store location
\* whose stream is passed on
Streamed(headers, access) ==
    [status |-> 200, error |-> "", requested |-> None, assetId |-> None,
     accesses |-> <<access>>, headers |-> Some(headers), body |-> Some(access)]

\* variant of RetrieveVariant that works the default out again from the
\* record's variants and dimensions instead of reading the stored one
RetrieveVariant_recompute(metadata, assetId, isVariantRequest, first, upstream) ==
    LET variantToServe == IF isVariantRequest THEN first
                          ELSE calculateDefaultVariant([metadata EXCEPT !.default_variant = None])
        result == getVariantToServe(metadata, variantToServe)
    IN  IF result.tag = "throw"
        THEN JsonError(500, "Internal server error", None, None, << >>)
        ELSE IF result.tag = "null"
        THEN JsonError(404, "No suitable variant found", Some(variantToServe), None, << >>)
        ELSE
        LET variant == result.variant
            storage == getVariantStorage(variant)
        IN  IF storage = None
            THEN JsonError(500, "Invalid variant storage configuration", None, None, << >>)
            ELSE IF ~upstream.ok
            THEN IF storage[1].type = "r2"
                 THEN JsonError(404, "Variant not found in R2 storage", None, None, <<storage[1]>>)
                 ELSE JsonError(503, "Failed to fetch variant from storage", None, None, <<storage[1]>>)
            ELSE Streamed(
                   buildAssetHeaders(
                     FirstTruthy(variant.content_type, metadata.content_type, upstream.contentType),
                     variant.size_bytes,
                     assetId,
                     Some(result.actualVariant),
                     Some(<<variant.width[1], variant.height[1]>>),
                     IF TruthyNum(metadata.original_width) /\ TruthyNum(metadata.original_height)
                     THEN Some(<<metadata.original_width[1], metadata.original_height[1]>>)
                     ELSE None),
                   storage[1])

\* the branch of handleRetrieval for a record with variants
RetrieveVariant(metadata, assetId, isVariantRequest, first, upstream) ==
    LET variantToServe == IF isVariantRequest THEN first
                          ELSE calculateDefaultVariant(metadata)
        result == getVariantToServe(metadata, variantToServe)
    IN  IF result.tag = "throw"
        THEN JsonError(500, "Internal server error", None, None, << >>)
        ELSE IF result.tag = "null"
        THEN JsonError(404, "No suitable variant found", Some(variantToServe), None, << >>)
        ELSE
        LET variant == result.variant
            storage == getVariantStorage(variant)
        IN  IF storage = None
            THEN JsonError(500, "Invalid variant storage configuration", None, None, << >>)
            ELSE IF ~upstream.ok
            THEN IF storage[1].type = "r2"
                 THEN JsonError(404, "Variant not found in R2 storage", None, None, <<storage[1]>>)
                 ELSE JsonError(503, "Failed to fetch variant from storage", None, None, <<storage[1]>>)
            ELSE Streamed(
                   buildAssetHeaders(
                     FirstTruthy(variant.content_type, metadata.content_type, upstream.contentType),
                     variant.size_bytes,
                     assetId,
                     Some(result.actualVariant),
                     Some(<<variant.width[1], variant.height[1]>>),
                     IF TruthyNum(metadata.original_width) /\ TruthyNum(metadata.original_height)
                     THEN Some(<<metadata.original_width[1], metadata.original_height[1]>>)
                     ELSE None),
                   storage[1])

\* variant of RetrieveScalar that fetches the URL a second time when the
\* first fetch fails
RetrieveScalar_retryUrl(metadata, assetId, isVariantRequest, upstream) ==
    IF isVariantRequest
    THEN JsonError(400, "Variants not available for this asset type", None, Some(assetId), << >>)
    ELSE IF metadata.storage_type = "r2" /\ TruthyStr(metadata.r2_key)
    THEN LET access == [type |-> "r2", location |-> metadata.r2_key[1]]
         IN  IF ~upstream.ok
             THEN JsonError(404, "Asset not found in R2 storage", None, None, <<access>>)
             ELSE Streamed(
                    buildAssetHeaders(
                      FirstTruthy(metadata.content_type, upstream.contentType, None),
                      IF TruthyNum(metadata.size_bytes) THEN metadata.size_bytes
                      ELSE Some(upstream.size),
                      assetId, None, None, None),
                    access)
    ELSE IF metadata.storage_type = "url" /\ TruthyStr(metadata.url)
    THEN LET access == [type |-> "url", location |-> metadata.url[1]]
         IN  IF ~upstream.ok
             THEN JsonError(503, "Failed to fetch asset from storage", None, None, <<access, access>>)
             ELSE Streamed(
                    buildAssetHeaders(
                      FirstTruthy(metadata.content_type, upstream.contentType, None),
                      metadata.size_bytes,
                      assetId, None, None, None),
                    access)
    ELSE JsonError(500, "Invalid asset metadata: missing storage configuration", None, None, << >>)

\* the branch of handleRetrieval for a record without variants
RetrieveScalar(metadata, assetId, isVariantRequest, upstream) ==
    IF isVariantRequest
    THEN JsonError(400, "Variants not available for this asset type", None, Some(assetId), << >>)
    ELSE IF metadata.storage_type = "r2" /\ TruthyStr(metadata.r2_key)
    THEN LET access == [type |-> "r2", location |-> metadata.r2_key[1]]
         IN  IF ~upstream.ok
             THEN JsonError(404, "Asset not found in R2 storage", None, None, <<access>>)
             ELSE Streamed(
                    buildAssetHeaders(
                      FirstTruthy(metadata.content_type, upstream.contentType, None),
                      IF TruthyNum(metadata.size_bytes) THEN metadata.size_bytes
                      ELSE Some(upstream.size),
                      assetId, None, None, None),
                    access)
    ELSE IF metadata.storage_type = "url" /\ TruthyStr(metadata.url)
    THEN LET access == [type |-> "url", location |-> metadata.url[1]]
         IN  IF ~upstream.ok
             THEN JsonError(503, "Failed to fetch asset from storage", None, None, <<access>>)
             ELSE Streamed(
                    buildAssetHeaders(
                      FirstTruthy(metadata.content_type, upstream.contentType, None),
                      metadata.size_bytes,
                      assetId, None, None, None),
                    access)
    ELSE JsonError(500, "Invalid asset metadata: missing storage configuration", None, None, << >>)

\* metadataJson is the KV entry (<< >> when the key is absent); upstream is
\* what the object store answers if it is asked: ok is FALSE when R2 has no
\* such key or the URL answers a non-success status
handleRetrieval(metadataJson, assetId, trailingPath, upstream) ==
    IF metadataJson = None
    THEN JsonError(404, "Asset not found", None, None, << >>)
    ELSE LET metadata         == metadataJson[1]
             first            == firstPart(trailingPath)
             isVariantRequest == isValidVariantName(first)
         IN  IF hasVariants(metadata)
             THEN RetrieveVariant(metadata, assetId, isVariantRequest, first, upstream)
             ELSE RetrieveScalar(metadata, assetId, isVariantRequest, upstream)

\* what the catch block of handleRetrieval answers
InternalServerError(accesses) == JsonError(500, "Internal server error", None, None, accesses)

\* variant of handleRetrievalCaught without the catch block: the exception
\* leaves the handler and no response is built
handleRetrievalCaught_uncaught(metadataJson, assetId, trailingPath, upstream, fault) ==
    IF fault = "kv"
    THEN [status |-> 0]
    ELSE LET out == handleRetrieval(metadataJson, assetId, trailingPath, upstream)
         IN  IF fault = "store" /\ out.accesses # << >>
             THEN [status |-> 0]
             ELSE out

\* handleRetrieval with its try/catch around the awaited calls: fault "kv"
\* is ASSET_MAP.get rejecting, fault "store" is ARKE_ARCHIVE.get or fetch
\* rejecting when the handler gets as far as calling it, "none" is neither
handleRetrievalCaught(metadataJson, assetId, trailingPath, upstream, fault) ==
    IF fault = "kv"
    THEN InternalServerError(<< >>)
    ELSE LET out == handleRetrieval(metadataJson, assetId, trailingPath, upstream)
         IN  IF fault = "store" /\ out.accesses # << >>
             THEN InternalServerError(out.accesses)
             ELSE out

-----------------------------------------------------------------------------
(* Bounded inputs *)

\* longest trailing path, in segments
MaxPathLen == 2

\* asset ids that requests name; registrations use RegisteredIds only, so
\* that a retrieval can also name an id that was never registered
AssetIds == {"A1", "A2"}

RegisteredIds == {"A1"}

\* names usable as keys of body.variants: the four variant names and one
\* name outside VARIANT_NAMES
KeyOrder == <<"thumb", "medium", "large", "original", "xl">>

KeyNames == {KeyOrder[i] : i \in DOMAIN KeyOrder}

PixelWidth == [thumb |-> 200, medium |-> 1288, large |-> 2400, original |-> 4416, xl |-> 6000]

\* kinds of entries that lack a required field
BadKinds == {"nowidth", "noheight", "nosize", "noloc"}

\* a variant entry of a registration body: stored under an R2 key ("r2"),
\* behind a URL ("url"), carrying both locations ("both"), or lacking its
\* location, width, height or size; the location string is the variant's
\* own name, so two variants of a record never share a location
VariantOf(name, kind) ==
    [r2_key       |-> IF kind \in {"url", "noloc"} THEN None ELSE Some(name),
     url          |-> IF kind \in {"url", "both"} THEN Some(name) ELSE None,
     width        |-> IF kind = "nowidth" THEN None ELSE Some(PixelWidth[name]),
     height       |-> IF kind = "noheight" THEN None ELSE Some(100),
     size_bytes   |-> IF kind = "nosize" THEN None ELSE Some(10),
     content_type |-> None]

\* the entries of a JSON object with the given keys (a sequence of names),
\* kinds[i] being the kind of the i-th entry
EntriesOf(names, kinds) ==
    [i \in DOMAIN names |-> [name |-> names[i], v |-> VariantOf(names[i], kinds[i])]]

\* the subsequence of KeyOrder whose names are in S
RECURSIVE OrderedFrom(_, _)
OrderedFrom(S, i) ==
    IF i > Len(KeyOrder) THEN << >>
    ELSE IF KeyOrder[i] \in S THEN <<KeyOrder[i]>> \o OrderedFrom(S, i + 1)
    ELSE OrderedFrom(S, i + 1)

Uniform(names, kind) == EntriesOf(names, [i \in DOMAIN names |-> kind])

\* key sequences of the registration bodies: every subset of the four
\* variant names, a few with the unrecognized key, one in another order
KeySeqs ==
    {OrderedFrom(S, 1) : S \in SUBSET VariantNameSet}
    \cup {<<"xl">>, <<"thumb", "xl">>, <<"xl", "original">>, <<"original", "medium">>}

\* every mapping over every subset of KeyNames, all entries in R2
AllR2Maps == {Uniform(OrderedFrom(S, 1), "r2") : S \in SUBSET KeyNames}

R2Maps == {Uniform(ks, "r2") : ks \in KeySeqs}

\* mappings over one or two keys with every mix of R2 and URL entries
MixedMaps ==
    {EntriesOf(ks, kinds) : ks \in {<<"original">>, <<"medium", "original">>, <<"thumb", "large">>},
                            kinds \in {<<"r2", "r2">>, <<"r2", "url">>, <<"url", "r2">>, <<"url", "url">>}}

\* mappings with at least one entry that lacks a required field
BadMaps ==
    {EntriesOf(ks, <<k>>) : ks \in {<<"thumb">>, <<"xl">>}, k \in BadKinds}
    \cup {EntriesOf(ks, kinds) :
            ks \in {<<"medium", "original">>, <<"original", "medium">>},
            kinds \in {q \in ({"r2"} \cup BadKinds) \X ({"r2"} \cup BadKinds) :
                         q[1] \in BadKinds \/ q[2] \in BadKinds}}

\* mappings with an entry that carries both an R2 key and a URL
AmbiguousMaps ==
    {EntriesOf(<<"original">>, <<"both">>),
     EntriesOf(<<"medium", "original">>, <<"both", "r2">>),
     EntriesOf(<<"medium", "original">>, <<"url", "both">>)}

Body(is_image, url, r2_key, variants, default_variant, original_width) ==
    [is_image        |-> is_image,
     url             |-> url,
     r2_key          |-> r2_key,
     content_type    |-> None,
     size_bytes      |-> None,
     original_width  |-> original_width,
     original_height |-> IF original_width = None THEN None ELSE Some(3000),
     variants        |-> variants,
     default_variant |-> default_variant]

DefaultValues == {None, Some("thumb"), Some("medium"), Some("large"), Some("original"), Some("bogus")}

WidthValues == {None, Some(0), Some(1288), Some(1289)}

\* an explicit default without original_width, or no default with every
\* width: the width is read only when the default is computed
DefaultAndWidth ==
    {<<d, None>> : d \in DefaultValues} \cup {<<None, w>> : w \in WidthValues}

\* images with variants in R2: every key sequence, default and width
DefaultBodies ==
    {Body(Some(TRUE), None, None, Some(m), dw[1], dw[2]) :
        m \in R2Maps, dw \in DefaultAndWidth}

\* images whose variants mix R2 and URL entries, under every primary location
StorageBodies ==
    {Body(Some(TRUE), u, k, Some(m), None, None) :
        u \in {None, Some("u0")}, k \in {None, Some("k0")}, m \in MixedMaps}

\* images with a variant entry that validation must reject
InvalidVariantBodies ==
    {Body(Some(TRUE), None, None, Some(m), None, None) : m \in BadMaps}

\* images with a variant entry that names two locations
AmbiguousVariantBodies ==
    {Body(Some(TRUE), None, None, Some(m), None, None) : m \in AmbiguousMaps}

\* bodies without variants, and non-image bodies that carry variants anyway
ScalarBodies ==
    {Body(i, u, k, v, None, None) :
        i \in {None, Some(FALSE), Some(TRUE)},
        u \in {None, Some(""), Some("u0")}, k \in {None, Some("k0")},
        v \in {None, Some(Uniform(<<"medium", "original">>, "r2"))}}

\* bodies that record a size: assets without variants behind a URL and
\* under an R2 key with size_bytes 0 and 55, and an image whose only
\* variant has size_bytes 0
SizedBodies ==
    {[Body(None, Some("u0"), None, None, None, None) EXCEPT !.size_bytes = s] : s \in {Some(0), Some(55)}}
    \cup {[Body(None, None, Some("k0"), None, None, None) EXCEPT !.size_bytes = s] : s \in {Some(0), Some(55)}}
    \cup {Body(Some(TRUE), None, None,
               Some(<<[name |-> "original", v |-> [VariantOf("original", "url") EXCEPT !.size_bytes = Some(0)]]>>),
               None, None)}

Bodies ==
    DefaultBodies \cup StorageBodies \cup InvalidVariantBodies
    \cup AmbiguousVariantBodies \cup ScalarBodies \cup SizedBodies

Segments == VariantNameSet \cup {"photo.jpg", ""}

RECURSIVE SeqsUpTo(_, _)
SeqsUpTo(S, n) ==
    IF n = 0 THEN {<< >>}
    ELSE LET shorter == SeqsUpTo(S, n - 1)
         IN  shorter \cup {Append(p, x) : p \in shorter, x \in S}

Paths == SeqsUpTo(Segments, MaxPathLen)

\* answers of the object store: no such object / non-success status, or an
\* object with its reported content type and size
Upstreams ==
    {[ok |-> FALSE, contentType |-> None, size |-> 0],
     [ok |-> TRUE, contentType |-> Some("image/png"), size |-> 77],
     [ok |-> TRUE, contentType |-> None, size |-> 0]}

-----------------------------------------------------------------------------
(* The worker: one request at a time is answered against the KV store *)

NoReq == [op |-> "none"]

NoResp == [status |-> 0]

NoCall == [fn |-> "none"]

\* number of requests the runtime runs at the same time
NumWorkers == 2

Workers == 1..NumWorkers

\* a worker that runs no request
Waiting == [phase |-> "waiting"]

NoWorker == [w \in Workers |-> Waiting]

NothingLanded == [id \in AssetIds |-> None]

Init ==
    /\ kv = [id \in AssetIds |-> None]
    /\ pc = "idle"
    /\ req = NoReq
    /\ resp = NoResp
    /\ fnIn = NoCall
    /\ fnOut = NoCall
    /\ inflight = NoWorker
    /\ landed = NothingLanded

\* POST /asset/:assetId with a JSON body; putOk is the outcome of
\* ASSET_MAP.put if the handler calls it
Register(assetId, body, putOk) ==
    LET out == handleRegistrationCaught(assetId, Some(body), putOk)
    IN  /\ pc = "idle"
        /\ putOk \/ handleRegistration(assetId, body).put # None
        /\ kv' = IF out.put = None THEN kv ELSE KvPut(kv, assetId, out.put[1])
        /\ req' = [op |-> "register", assetId |-> assetId, body |-> body, putOk |-> putOk]
        /\ resp' = out.response
        /\ pc' = "done"
        /\ UNCHANGED <<fnIn, fnOut, inflight, landed>>

\* POST /asset/:assetId with a body that is not JSON
RegisterMalformed(assetId) ==
    LET out == handleRegistrationCaught(assetId, None, TRUE)
    IN  /\ pc = "idle"
        /\ kv' = IF out.put = None THEN kv ELSE KvPut(kv, assetId, out.put[1])
        /\ req' = [op |-> "malformed", assetId |-> assetId]
        /\ resp' = out.response
        /\ pc' = "done"
        /\ UNCHANGED <<fnIn, fnOut, inflight, landed>>

\* GET /asset/:assetId and GET /asset/:assetId/:path
Retrieve(assetId, trailingPath, upstream) ==
    /\ pc = "idle"
    /\ req' = [op |-> "retrieve", assetId |-> assetId, path |-> trailingPath,
               upstream |-> upstream]
    /\ resp' = handleRetrieval(kv[assetId], assetId, trailingPath, upstream)
    /\ pc' = "done"
    /\ UNCHANGED <<kv, fnIn, fnOut, inflight, landed>>

\* the response leaves the worker
Respond ==
    /\ pc = "done"
    /\ pc' = "idle"
    /\ req' = NoReq
    /\ resp' = NoResp
    /\ UNCHANGED <<kv, fnIn, fnOut, inflight, landed>>

Next ==
    \/ \E assetId \in RegisteredIds, body \in Bodies, putOk \in BOOLEAN :
          Register(assetId, body, putOk)
    \/ \E assetId \in RegisteredIds : RegisterMalformed(assetId)
    \/ \E assetId \in AssetIds, trailingPath \in Paths, upstream \in Upstreams :
          Retrieve(assetId, trailingPath, upstream)
    \/ Respond

Spec == Init /\ [][Next]_vars

-----------------------------------------------------------------------------
(* The variant utilities applied to arbitrary metadata records *)

FnMetadata(is_image, variants, default_variant, original_width) ==
    BuildMetadata(Body(Some(is_image), None, None, variants, default_variant, original_width))

FnWidthValues == WidthValues \cup {Some(-5), Some(1), Some(2400)}

FnInputs ==
    {[metadata |-> FnMetadata(TRUE, v, d, w), requestedVariant |-> r] :
        v \in {None} \cup {Some(m) : m \in AllR2Maps},
        d \in DefaultValues \cup {Some("")},
        w \in FnWidthValues,
        r \in VariantNameSet}

InitFn ==
    /\ kv = [id \in AssetIds |-> None]
    /\ pc = "idle"
    /\ req = NoReq
    /\ resp = NoResp
    /\ fnIn \in FnInputs
    /\ fnOut = NoCall
    /\ inflight = NoWorker
    /\ landed = NothingLanded

CallCalculateDefaultVariant ==
    /\ fnOut' = [fn |-> "calculateDefaultVariant",
                 default |-> calculateDefaultVariant(fnIn.metadata)]
    /\ UNCHANGED <<kv, pc, req, resp, fnIn, inflight, landed>>

CallGetVariantToServe ==
    /\ fnOut' = [fn |-> "getVariantToServe",
                 result |-> getVariantToServe(fnIn.metadata, fnIn.requestedVariant)]
    /\ UNCHANGED <<kv, pc, req, resp, fnIn, inflight, landed>>

NextFn == CallCalculateDefaultVariant \/ CallGetVariantToServe

SpecFn == InitFn /\ [][NextFn]_vars

-----------------------------------------------------------------------------
(* Concurrent registrations: every request runs handleRegistration on its  *)
(* own; the handler has one await before it answers, ASSET_MAP.put, and    *)
(* the puts of the requests in flight are applied in any order             *)

\* registration bodies of the concurrent requests: an image with variants
\* and dimensions, a URL asset, an R2 asset, and a body that is refused
ConcBodies ==
    {Body(Some(TRUE), None, None, Some(Uniform(<<"medium", "original">>, "r2")), None, Some(1288)),
     Body(Some(TRUE), Some("u0"), None, Some(Uniform(<<"thumb">>, "url")), Some("thumb"), None),
     Body(None, Some("u0"), None, None, None, None),
     Body(Some(FALSE), None, Some("k0"), None, None, None),
     Body(None, None, None, None, None, None)}

InitConc ==
    /\ kv = [id \in AssetIds |-> None]
    /\ pc = "idle"
    /\ req = NoReq
    /\ resp = NoResp
    /\ fnIn = NoCall
    /\ fnOut = NoCall
    /\ inflight = NoWorker
    /\ landed = NothingLanded

\* a request arrives at worker w: the handler parses the body, validates
\* it and builds the record, then either answers 400 or issues the put
ConcBegin(w, assetId, body) ==
    LET out == handleRegistration(assetId, body)
    IN  /\ inflight[w] = Waiting
        /\ inflight' = [inflight EXCEPT ![w] =
                          [phase   |-> IF out.put = None THEN "answer" ELSE "put",
                           assetId |-> assetId,
                           body    |-> body,
                           out     |-> out]]
        /\ UNCHANGED <<kv, pc, req, resp, fnIn, fnOut, landed>>

\* the put of worker w is applied to the store
ConcLand(w) ==
    /\ inflight[w].phase = "put"
    /\ kv' = KvPut(kv, inflight[w].assetId, inflight[w].out.put[1])
    /\ landed' = [landed EXCEPT ![inflight[w].assetId] = Some(inflight[w].body)]
    /\ inflight' = [inflight EXCEPT ![w].phase = "answer"]
    /\ UNCHANGED <<pc, req, resp, fnIn, fnOut>>

\* worker w returns its response
ConcAnswer(w) ==
    /\ inflight[w].phase = "answer"
    /\ inflight' = [inflight EXCEPT ![w] = Waiting]
    /\ UNCHANGED <<kv, pc, req, resp, fnIn, fnOut, landed>>

NextConc ==
    \/ \E w \in Workers, assetId \in AssetIds, body \in ConcBodies : ConcBegin(w, assetId, body)
    \/ \E w \in Workers : ConcLand(w)
    \/ \E w \in Workers : ConcAnswer(w)

SpecConc == InitConc /\ [][NextConc]_vars

-----------------------------------------------------------------------------
(* A retrieval that runs while registrations are written: handleRetrieval  *)
(* awaits ASSET_MAP.get, then the object store, and the put of any         *)
(* registration may be applied before, between or after the two            *)

\* trailing paths of the retrievals: none, a variant name that may fall
\* back, one that may not, and a file name
LivePaths == {<< >>, <<"thumb">>, <<"original">>, <<"photo.jpg">>}

\* the bodies of ConcBodies that registration accepts
RaceBodies == {body \in ConcBodies : validateRegistrationBody(body).valid}

\* the put of a concurrent registration is applied
RaceLand(assetId, body) ==
    /\ kv' = KvPut(kv, assetId, RegistrationMetadata(body))
    /\ UNCHANGED <<pc, req, resp, fnIn, fnOut, inflight, landed>>

\* handleRetrieval reads the metadata: seen is the local metadataJson
RaceRead(assetId, trailingPath) ==
    /\ pc = "idle"
    /\ req' = [op |-> "retrieve", assetId |-> assetId, path |-> trailingPath,
               seen |-> kv[assetId], upstream |-> [ok |-> FALSE, contentType |-> None, size |-> 0]]
    /\ pc' = "read"
    /\ UNCHANGED <<kv, resp, fnIn, fnOut, inflight, landed>>

\* variant of RaceServe that reads the metadata store a second time
RaceServe_reread(upstream) ==
    /\ pc = "read"
    /\ req' = [req EXCEPT !.upstream = upstream]
    /\ resp' = handleRetrieval(kv[req.assetId], req.assetId, req.path, upstream)
    /\ pc' = "done"
    /\ UNCHANGED <<kv, fnIn, fnOut, inflight, landed>>

\* the rest of handleRetrieval: everything after the read works on the
\* local metadata
RaceServe(upstream) ==
    /\ pc = "read"
    /\ req' = [req EXCEPT !.upstream = upstream]
    /\ resp' = handleRetrieval(req.seen, req.assetId, req.path, upstream)
    /\ pc' = "done"
    /\ UNCHANGED <<kv, fnIn, fnOut, inflight, landed>>

NextRace ==
    \/ \E assetId \in AssetIds, body \in RaceBodies : RaceLand(assetId, body)
    \/ \E assetId \in AssetIds, trailingPath \in LivePaths : RaceRead(assetId, trailingPath)
    \/ \E upstream \in Upstreams : RaceServe(upstream)
    \/ Respond

SpecRace == Init /\ [][NextRace]_vars

-----------------------------------------------------------------------------
(* Requests from arrival to response, with failing collaborators: a        *)
(* request arrives, its handler runs to its return or to its catch block,  *)
(* and the response leaves the worker                                      *)

\* registration bodies: those of ConcBodies and an image whose default
\* names no variant at all
LiveBodies ==
    ConcBodies
    \cup {Body(Some(TRUE), None, None, Some(Uniform(<<"thumb">>, "r2")), Some("bogus"), None)}

Faults == {"none", "kv", "store"}

\* a POST with a JSON body arrives
ArriveRegistration(assetId, body, putOk) ==
    /\ pc = "idle"
    /\ putOk \/ handleRegistration(assetId, body).put # None
    /\ req' = [op |-> "register", assetId |-> assetId, body |-> body, putOk |-> putOk]
    /\ pc' = "running"
    /\ UNCHANGED <<kv, resp, fnIn, fnOut, inflight, landed>>

\* a POST with a body that is not JSON arrives
ArriveMalformed(assetId) ==
    /\ pc = "idle"
    /\ req' = [op |-> "malformed", assetId |-> assetId]
    /\ pc' = "running"
    /\ UNCHANGED <<kv, resp, fnIn, fnOut, inflight, landed>>

\* a GET arrives
ArriveRetrieval(assetId, trailingPath, upstream, fault) ==
    /\ pc = "idle"
    /\ req' = [op |-> "retrieve", assetId |-> assetId, path |-> trailingPath,
               upstream |-> upstream, fault |-> fault]
    /\ pc' = "running"
    /\ UNCHANGED <<kv, resp, fnIn, fnOut, inflight, landed>>

\* handleRegistration runs to its return statement or to its catch block
CompleteRegistration ==
    LET out == IF req.op = "register"
               THEN handleRegistrationCaught(req.assetId, Some(req.body), req.putOk)
               ELSE handleRegistrationCaught(req.assetId, None, TRUE)
    IN  /\ pc = "running"
        /\ req.op \in {"register", "malformed"}
        /\ kv' = IF out.put = None THEN kv ELSE KvPut(kv, req.assetId, out.put[1])
        /\ resp' = out.response
        /\ pc' = "done"
        /\ UNCHANGED <<req, fnIn, fnOut, inflight, landed>>

\* variant of CompleteRetrieval that drops the entry of an asset whose
\* object the store does not have
CompleteRetrieval_evicting ==
    LET out == handleRetrievalCaught(kv[req.assetId], req.assetId, req.path, req.upstream, req.fault)
    IN  /\ pc = "running"
        /\ req.op = "retrieve"
        /\ resp' = out
        /\ kv' = IF out.status = 404 THEN [kv EXCEPT ![req.assetId] = None] ELSE kv
        /\ pc' = "done"
        /\ UNCHANGED <<req, fnIn, fnOut, inflight, landed>>

\* handleRetrieval runs to a return statement or to its catch block
CompleteRetrieval ==
    /\ pc = "running"
    /\ req.op = "retrieve"
    /\ resp' = handleRetrievalCaught(kv[req.assetId], req.assetId, req.path, req.upstream, req.fault)
    /\ pc' = "done"
    /\ UNCHANGED <<kv, req, fnIn, fnOut, inflight, landed>>

NextLive ==
    \/ \E assetId \in AssetIds, body \in LiveBodies, putOk \in BOOLEAN :
          ArriveRegistration(assetId, body, putOk)
    \/ \E assetId \in AssetIds : ArriveMalformed(assetId)
    \/ \E assetId \in AssetIds, trailingPath \in LivePaths, upstream \in Upstreams, fault \in Faults :
          ArriveRetrieval(assetId, trailingPath, upstream, fault)
    \/ CompleteRegistration
    \/ CompleteRetrieval
    \/ Respond

\* the handlers have no unbounded loop and every call they await settles,
\* so a handler that runs finishes and its response is sent
SpecLive ==
    /\ Init
    /\ [][NextLive]_vars
    /\ WF_vars(CompleteRegistration)
    /\ WF_vars(CompleteRetrieval)
    /\ WF_vars(Respond)

-----------------------------------------------------------------------------
(* Vocabulary of the properties *)

\* the record stored under the id of the request being answered
Stored == kv[req.assetId][1]

Retrieved == pc = "done" /\ req.op = "retrieve" /\ kv[req.assetId] # None

\* is_image is true and the variants mapping has at least one entry
VariantBearing(md) == md.is_image = TRUE /\ md.variants # None /\ md.variants[1] # << >>

VariantKeys(md) == KeysOf(md.variants[1])

\* the entry stored under key k
VariantAt(md, k) == (CHOOSE e \in {md.variants[1][i] : i \in DOMAIN md.variants[1]} : e.name = k).v

\* the object-store call that reads variant v
AccessOf(v) ==
    IF v.r2_key # None THEN [type |-> "r2", location |-> v.r2_key[1]]
    ELSE [type |-> "url", location |-> v.url[1]]

\* the fallback chains as the documentation lists them
DocumentedChain ==
    [thumb    |-> <<"thumb", "medium", "original">>,
     medium   |-> <<"medium", "original">>,
     large    |-> <<"large", "medium", "original">>,
     original |-> <<"original">>]

\* positions of chain whose variant the record holds
PresentIn(md, chain) == {i \in DOMAIN chain : chain[i] \in VariantKeys(md)}

Least(S) == CHOOSE i \in S : \A j \in S : i <= j

\* the first non-empty segment of a path, "" when there is none
FirstSegment(path) ==
    IF \E i \in DOMAIN path : path[i] # ""
    THEN path[Least({i \in DOMAIN path : path[i] # ""})]
    ELSE ""

NoExplicitDefault(md) == md.default_variant = None \/ md.default_variant = Some("")

DefaultComputed == fnOut.fn = "calculateDefaultVariant"

ServeComputed == fnOut.fn = "getVariantToServe"

-----------------------------------------------------------------------------
(* C1 *)

\* C1: for a record with a variants mapping and a recognized requested
\* name, getVariantToServe returns the first variant present along the
\* documented chain of that name, with variant = variants[actualVariant],
\* and returns null exactly when no entry of the chain is present.
C1_FirstPresentInChain ==
    (ServeComputed /\ fnIn.metadata.variants # None) =>
        LET md      == fnIn.metadata
            chain   == DocumentedChain[fnIn.requestedVariant]
            present == PresentIn(md, chain)
            result  == fnOut.result
        IN  IF present = {}
            THEN result.tag = "null"
            ELSE /\ result.tag = "found"
                 /\ result.actualVariant = chain[Least(present)]
                 /\ result.variant = VariantAt(md, result.actualVariant)

\* thumb is requested, thumb is missing, medium is served although the
\* record also holds original
C1_Witness ==
    /\ ServeComputed
    /\ fnIn.requestedVariant = "thumb"
    /\ fnIn.metadata.variants # None
    /\ VariantKeys(fnIn.metadata) = {"medium", "large", "original"}
    /\ fnOut.result.tag = "found"
    /\ fnOut.result.actualVariant = "medium"

-----------------------------------------------------------------------------
(* C2 *)

\* C2: a retrieval whose path starts with `original`, on a variant-bearing
\* record without `original`, answers 404 naming `original` as requested,
\* reads no object and streams nothing, whatever other variants exist.
C2_OriginalNeverFallsBack ==
    (/\ Retrieved
     /\ VariantBearing(Stored)
     /\ req.path # << >>
     /\ req.path[1] = "original"
     /\ "original" \notin VariantKeys(Stored)) =>
        /\ resp.status = 404
        /\ resp.error = "No suitable variant found"
        /\ resp.requested = Some("original")
        /\ resp.accesses = << >>
        /\ resp.body = None

\* original is requested from a record that holds thumb, medium and large
C2_Witness ==
    /\ Retrieved
    /\ VariantBearing(Stored)
    /\ VariantKeys(Stored) = {"thumb", "medium", "large"}
    /\ req.path = <<"original", "photo.jpg">>
    /\ req.upstream.ok
    /\ resp.status = 404

-----------------------------------------------------------------------------
(* C3 *)

\* the request names a recognized variant and the record has variants
VariantRequested ==
    /\ Retrieved
    /\ VariantBearing(Stored)
    /\ req.path # << >>
    /\ req.path[1] \in VariantNameSet

\* the retrieval read the object of a variant the record holds
ResolvedToRegistered ==
    /\ Len(resp.accesses) = 1
    /\ \E k \in VariantKeys(Stored) : resp.accesses[1] = AccessOf(VariantAt(Stored, k))

-----------------------------------------------------------------------------
(* C4 *)

\* C4: a retrieval whose path starts with a recognized variant name, on a
\* record that is not variant-bearing, answers 400, reads no object and
\* streams nothing.
C4_VariantOfScalarIsRejected ==
    (/\ Retrieved
     /\ ~VariantBearing(Stored)
     /\ req.path # << >>
     /\ req.path[1] \in VariantNameSet) =>
        /\ resp.status = 400
        /\ resp.error = "Variants not available for this asset type"
        /\ resp.accesses = << >>
        /\ resp.body = None

\* original is requested from a record that holds an R2 key and no variants
C4_Witness ==
    /\ Retrieved
    /\ Stored.variants = None
    /\ Stored.r2_key = Some("k0")
    /\ req.path = <<"original">>
    /\ req.upstream.ok
    /\ resp.status = 400

-----------------------------------------------------------------------------
(* C5 *)

\* the path that keeps only what decides the outcome: the first segment
\* when it is a variant name, nothing otherwise
Canonical(path) ==
    IF FirstSegment(path) \in VariantNameSet THEN <<FirstSegment(path)>> ELSE << >>

\* C5: the response to a path whose first (non-empty) segment is not a
\* variant name is the response to the empty path, and the segments after
\* the first never change the response.
C5_VanityPathIgnored ==
    Retrieved =>
        resp = handleRetrieval(kv[req.assetId], req.assetId, Canonical(req.path), req.upstream)

\* photo.jpg/thumb on a record that holds thumb and medium and defaults to
\* medium: medium is served
C5_Witness ==
    /\ Retrieved
    /\ VariantBearing(Stored)
    /\ VariantKeys(Stored) = {"thumb", "medium"}
    /\ Stored.default_variant = Some("medium")
    /\ req.path = <<"photo.jpg", "thumb">>
    /\ resp.status = 200
    /\ resp.headers[1].XVariant = Some("medium")

-----------------------------------------------------------------------------
(* C6 *)

\* C6 as stated: for a variant-bearing record that holds medium,
\* calculateDefaultVariant returns medium whatever the other fields are.
C6_MediumWhateverTheRest ==
    (/\ DefaultComputed
     /\ VariantBearing(fnIn.metadata)
     /\ "medium" \in VariantKeys(fnIn.metadata)) =>
        fnOut.default = "medium"

\* C6 amended: for a variant-bearing record without an explicit default
\* that holds medium, calculateDefaultVariant returns medium whatever the
\* other fields are.
C6_MediumWithoutExplicitDefault ==
    (/\ DefaultComputed
     /\ VariantBearing(fnIn.metadata)
     /\ NoExplicitDefault(fnIn.metadata)
     /\ "medium" \in VariantKeys(fnIn.metadata)) =>
        fnOut.default = "medium"

\* medium wins over a small original and over large
C6_Witness ==
    /\ DefaultComputed
    /\ fnIn.metadata.default_variant = None
    /\ fnIn.metadata.variants # None
    /\ VariantKeys(fnIn.metadata) = {"medium", "large", "original"}
    /\ fnIn.metadata.original_width = Some(1288)
    /\ fnOut.default = "medium"

-----------------------------------------------------------------------------
(* C7 *)

\* C7: for a variant-bearing record without an explicit default, without
\* medium, with original and with an original_width of any integer value
\* <= 1288, calculateDefaultVariant returns original.
C7_SmallOriginalIsDefault ==
    (/\ DefaultComputed
     /\ VariantBearing(fnIn.metadata)
     /\ fnIn.metadata.default_variant = None
     /\ "medium" \notin VariantKeys(fnIn.metadata)
     /\ "original" \in VariantKeys(fnIn.metadata)
     /\ fnIn.metadata.original_width # None
     /\ fnIn.metadata.original_width[1] <= 1288) =>
        fnOut.default = "original"

-----------------------------------------------------------------------------
(* C8 *)

\* the priority list of the default variant, the width being known when
\* the field is present
PriorityDefault(md) ==
    LET K == VariantKeys(md)
    IN  IF "medium" \in K THEN "medium"
        ELSE IF "original" \in K /\ md.original_width # None /\ md.original_width[1] <= 1288
        THEN "original"
        ELSE IF "large" \in K THEN "large"
        ELSE IF "original" \in K THEN "original"
        ELSE IF "thumb" \in K THEN "thumb"
        ELSE "original"

\* C8: for a variant-bearing record without an explicit default,
\* calculateDefaultVariant returns the first applicable entry of: medium if
\* present; original if present with a known width <= 1288; large if
\* present; original if present; thumb if present; otherwise original.
C8_PriorityList ==
    (/\ DefaultComputed
     /\ VariantBearing(fnIn.metadata)
     /\ fnIn.metadata.default_variant = None) =>
        fnOut.default = PriorityDefault(fnIn.metadata)

-----------------------------------------------------------------------------
(* C9 *)

\* C9: every variant-bearing record in the metadata store has a
\* default_variant that is a key of its variants mapping.
C9_DefaultIsRegisteredKey ==
    \A id \in AssetIds :
        (kv[id] # None /\ VariantBearing(kv[id][1])) =>
            /\ kv[id][1].default_variant # None
            /\ kv[id][1].default_variant[1] \in VariantKeys(kv[id][1])

-----------------------------------------------------------------------------
(* C10 *)

\* C10: a registration whose variants mapping has a key outside thumb,
\* medium, large, original is rejected, and no stored record has such a
\* key.
C10_UnknownKeysRejected ==
    /\ (/\ pc = "done"
        /\ req.op = "register"
        /\ req.putOk
        /\ req.body.variants # None
        /\ ~(KeysOf(req.body.variants[1]) \subseteq VariantNameSet)) =>
            resp.status = 400
    /\ \A id \in AssetIds :
          (kv[id] # None /\ kv[id][1].variants # None) =>
              VariantKeys(kv[id][1]) \subseteq VariantNameSet

-----------------------------------------------------------------------------
(* Vocabulary of the registration properties *)

\* a registration with a JSON body has been answered
Registered == pc = "done" /\ req.op = "register"

\* the field is present and not the empty string
IsSet(o) == o # None /\ o # Some("")

NotAnImage(body) == body.is_image = None \/ body.is_image = Some(FALSE)

\* what the store holds under the id of the request being answered
Entry == kv[req.assetId]

-----------------------------------------------------------------------------
(* C11 *)

\* C11: a registration whose body is not an image is rejected when both url
\* and r2_key are set, rejected with another error when neither is set,
\* and, when exactly one is set and the store accepts the write, answered
\* 201 with the record persisted.
C11_ScalarLocationRule ==
    (Registered /\ NotAnImage(req.body)) =>
        LET u == IsSet(req.body.url)
            k == IsSet(req.body.r2_key)
        IN  /\ (u /\ k) =>
                  /\ resp.status = 400
                  /\ resp.error = "Cannot specify both url and r2_key for non-image assets"
            /\ (~u /\ ~k) =>
                  /\ resp.status = 400
                  /\ resp.error = "Either url or r2_key is required"
            /\ ((u # k) /\ req.putOk) =>
                  /\ resp.status = 201
                  /\ Entry # None
                  /\ Entry[1].url = req.body.url
                  /\ Entry[1].r2_key = req.body.r2_key
                  /\ Entry[1].is_image = FALSE

\* a body with an R2 key only, is_image absent, is stored
C11_Witness ==
    /\ Registered
    /\ req.body.is_image = None
    /\ req.body.url = None
    /\ req.body.r2_key = Some("k0")
    /\ req.body.variants = None
    /\ resp.status = 201
    /\ Entry # None
    /\ Entry[1].r2_key = Some("k0")
    /\ Entry[1].storage_type = "r2"

-----------------------------------------------------------------------------
(* C12 *)

\* the entry has no storage location, or no width, height or size_bytes
Lacking(v) ==
    \/ ~IsSet(v.r2_key) /\ ~IsSet(v.url)
    \/ v.width = None
    \/ v.height = None
    \/ v.size_bytes = None

LackingNames(entries) == {entries[i].name : i \in {j \in DOMAIN entries : Lacking(entries[j].v)}}

\* C12: when an image registration carries a variants mapping with an
\* entry that lacks its location, width, height or size_bytes, the answer
\* is 400, its message names one of the lacking entries, and the store is
\* left as it was: none of the body's variants is persisted.
C12_InvalidVariantRejectsAll ==
    [][(/\ pc' = "done"
        /\ req'.op = "register"
        /\ req'.body.is_image = Some(TRUE)
        /\ req'.body.variants # None
        /\ LackingNames(req'.body.variants[1]) # {}) =>
            /\ resp'.status = 400
            /\ resp'.variant \in LackingNames(req'.body.variants[1])
            /\ kv' = kv]_vars

\* medium is complete and original lacks its width: the answer names
\* original and the record stored before, which has no variants, stays
C12_Witness ==
    /\ Registered
    /\ req.body.variants = Some(EntriesOf(<<"medium", "original">>, <<"r2", "nowidth">>))
    /\ resp.status = 400
    /\ resp.variant = "original"
    /\ Entry # None
    /\ Entry[1].variants = None

-----------------------------------------------------------------------------
(* C13 *)

\* the entry names exactly one location
OneLocation(v) == IsSet(v.r2_key) # IsSet(v.url)

\* C13: an image registration with a variant entry that sets both r2_key
\* and url, or neither, is rejected, and every variant of a stored
\* variant-bearing record names exactly one location.
C13_ExactlyOneLocation ==
    /\ (/\ Registered
        /\ req.putOk
        /\ req.body.is_image = Some(TRUE)
        /\ req.body.variants # None
        /\ \E i \in DOMAIN req.body.variants[1] : ~OneLocation(req.body.variants[1][i].v)) =>
            resp.status = 400
    /\ \A id \in AssetIds :
          (kv[id] # None /\ VariantBearing(kv[id][1])) =>
              \A i \in DOMAIN kv[id][1].variants[1] : OneLocation(kv[id][1].variants[1][i].v)

-----------------------------------------------------------------------------
(* C14 *)

\* C14: an image registration without a variants mapping is accepted only
\* when exactly one of url and r2_key is present, and rejected when both
\* or neither are.
C14_ImageWithoutVariantsScalarRule ==
    (/\ Registered
     /\ req.putOk
     /\ req.body.is_image = Some(TRUE)
     /\ req.body.variants = None) =>
        IF IsSet(req.body.url) # IsSet(req.body.r2_key)
        THEN resp.status = 201
        ELSE resp.status = 400

-----------------------------------------------------------------------------
(* C15 *)

\* C15: a registration that is not answered 201 (validation error, body
\* that is not JSON, rejected write) leaves the metadata store as it was.
C15_FailedRegistrationWritesNothing ==
    [][(/\ pc' = "done"
        /\ req'.op \in {"register", "malformed"}
        /\ resp'.status # 201) => kv' = kv]_vars

\* a body naming both locations is refused while the store holds a
\* variant-bearing record, which stays
C15_Witness ==
    /\ Registered
    /\ NotAnImage(req.body)
    /\ IsSet(req.body.url)
    /\ IsSet(req.body.r2_key)
    /\ resp.status = 400
    /\ Entry # None
    /\ VariantBearing(Entry[1])

-----------------------------------------------------------------------------
(* C16 *)

\* a retrieval that names no variant has been answered for a record with
\* variants
DefaultRetrieved ==
    /\ Retrieved
    /\ VariantBearing(Stored)
    /\ Canonical(req.path) = << >>

\* C16: a retrieval with no variant selector of a registered
\* variant-bearing asset reads the location of the variant that the
\* default computation selects for the record, and the stored default is
\* what that computation yields.
C16_RoundTrip ==
    DefaultRetrieved =>
        /\ Stored.default_variant = Some(calculateDefaultVariant(Stored))
        /\ calculateDefaultVariant(Stored) \in VariantKeys(Stored)
        /\ resp.accesses = <<AccessOf(VariantAt(Stored, calculateDefaultVariant(Stored)))>>

-----------------------------------------------------------------------------
(* C17 *)

\* C17: a retrieval without a recognized selector resolves the
\* default_variant that the record stores: the stored value is never
\* empty, and the response is the one for that name as the target.
C17_DefaultFixedAtWrite ==
    DefaultRetrieved =>
        /\ TruthyStr(Stored.default_variant)
        /\ resp = RetrieveVariant(Stored, req.assetId, TRUE, Stored.default_variant[1], req.upstream)

\* a record registered with the explicit default thumb that also holds
\* medium: thumb is served, not the medium a recomputation would pick
C17_Witness ==
    /\ DefaultRetrieved
    /\ Stored.default_variant = Some("thumb")
    /\ {"thumb", "medium"} \subseteq VariantKeys(Stored)
    /\ resp.status = 200
    /\ resp.accesses = <<AccessOf(VariantAt(Stored, "thumb"))>>

-----------------------------------------------------------------------------
(* C19 *)

\* the name the resolver starts from: the selector of the path when it is
\* a variant name, else the default that the record stores
Target ==
    IF Canonical(req.path) # << >> THEN Canonical(req.path)[1]
    ELSE IF Stored.default_variant # None THEN Stored.default_variant[1]
    ELSE ""

\* C19: a retrieval answers 404 when the asset id has no entry in the
\* metadata store, when the record holds no variant of the fallback chain
\* of the resolver's target, and when the R2 key it reads is absent from
\* the bucket; none of these is answered with another status.
C19_NotFoundOutcomes ==
    /\ (pc = "done" /\ req.op = "retrieve" /\ kv[req.assetId] = None) =>
          resp.status = 404 /\ resp.accesses = << >>
    /\ (/\ Retrieved
        /\ VariantBearing(Stored)
        /\ Target \in VariantNameSet
        /\ PresentIn(Stored, DocumentedChain[Target]) = {}) =>
          resp.status = 404 /\ resp.accesses = << >>
    /\ (/\ Retrieved
        /\ resp.accesses # << >>
        /\ resp.accesses[1].type = "r2"
        /\ ~req.upstream.ok) =>
          resp.status = 404

\* original is asked of a record that holds thumb and medium only: the
\* chain of original has nothing else to offer
C19_Witness ==
    /\ Retrieved
    /\ VariantBearing(Stored)
    /\ Target = "original"
    /\ VariantKeys(Stored) = {"thumb", "medium"}
    /\ resp.status = 404
    /\ resp.requested = Some("original")

-----------------------------------------------------------------------------
(* C20 *)

\* C20: a retrieval calls the object store at most once, and when the call
\* is a URL fetch that answers a non-success status the retrieval answers
\* 503 with no body.
C20_SingleAccessNoRetry ==
    (pc = "done" /\ req.op = "retrieve") =>
        /\ Len(resp.accesses) <= 1
        /\ (/\ resp.accesses # << >>
            /\ resp.accesses[1].type = "url"
            /\ ~req.upstream.ok) =>
              resp.status = 503 /\ resp.body = None

\* the URL of a record without variants answers a non-success status
C20_Witness ==
    /\ Retrieved
    /\ ~VariantBearing(Stored)
    /\ Stored.storage_type = "url"
    /\ ~req.upstream.ok
    /\ resp.status = 503
    /\ resp.accesses = <<[type |-> "url", location |-> Stored.url[1]]>>

-----------------------------------------------------------------------------
(* C18 *)

\* C18: whatever the interleaving of the registrations in flight, the
\* record stored under an asset id is the complete record built from the
\* body of the request whose put was applied last, and nothing else; an
\* id for which no put was applied has no record.
C18_LastWriteWinsWholesale ==
    \A id \in AssetIds :
        IF landed[id] = None THEN kv[id] = None
        ELSE kv[id] = Some(RegistrationMetadata(landed[id][1]))

\* two requests for A1 were in flight together; the put of the URL asset
\* was applied after the put of the image with variants, and the record
\* keeps nothing of the image
C18_Witness ==
    /\ inflight[1].phase = "answer"
    /\ inflight[2].phase = "answer"
    /\ inflight[1].assetId = "A1"
    /\ inflight[2].assetId = "A1"
    /\ inflight[1].out.put # None
    /\ inflight[2].out.put # None
    /\ VariantBearing(inflight[1].out.put[1])
    /\ ~VariantBearing(inflight[2].out.put[1])
    /\ landed["A1"] = Some(inflight[2].body)
    /\ kv["A1"] = inflight[2].out.put
    /\ kv["A1"][1].variants = None

-----------------------------------------------------------------------------
(* C21 *)

\* C21: with registration as the only writer of the metadata store, no
\* retrieval answers 'Invalid asset metadata: missing storage
\* configuration' or 'Invalid variant storage configuration'.
C21_NoIntegrityError ==
    (pc = "done" /\ req.op = "retrieve") =>
        /\ resp.error # "Invalid asset metadata: missing storage configuration"
        /\ resp.error # "Invalid variant storage configuration"

\* a record registered with an empty url next to its R2 key is typed r2
\* and is served from the key
C21_Witness ==
    /\ Retrieved
    /\ ~VariantBearing(Stored)
    /\ Stored.url = Some("")
    /\ Stored.storage_type = "r2"
    /\ resp.status = 200
    /\ resp.accesses = <<[type |-> "r2", location |-> Stored.r2_key[1]]>>

-----------------------------------------------------------------------------
(* C22 *)

\* the headers of the response
Headers == resp.headers[1]

\* C22: a 200 response has an X-Variant header exactly when the record has
\* variants; the header names the variant whose location was read, and
\* X-Variant-Dimensions is the width and height of that variant.
C22_VariantHeaders ==
    (Retrieved /\ resp.status = 200) =>
        IF VariantBearing(Stored)
        THEN \E k \in VariantKeys(Stored) :
                /\ Headers.XVariant = Some(k)
                /\ resp.accesses = <<AccessOf(VariantAt(Stored, k))>>
                /\ Headers.XVariantDimensions =
                      Some(<<VariantAt(Stored, k).width[1], VariantAt(Stored, k).height[1]>>)
        ELSE /\ Headers.XVariant = None
             /\ Headers.XVariantDimensions = None

\* thumb is asked of a record that holds medium and original: medium is
\* read and medium is what the header says
C22_Witness ==
    /\ Retrieved
    /\ resp.status = 200
    /\ VariantBearing(Stored)
    /\ VariantKeys(Stored) = {"medium", "original"}
    /\ Canonical(req.path) = <<"thumb">>
    /\ Headers.XVariant = Some("medium")
    /\ Headers.XVariantDimensions = Some(<<PixelWidth["medium"], 100>>)
    /\ resp.accesses = <<AccessOf(VariantAt(Stored, "medium"))>>

-----------------------------------------------------------------------------
(* C23 *)

\* C23: the 201 response of a registration that stores a record with
\* variants lists one URL for each key of the stored variants and a
\* defaultUrl that ends in the stored default_variant; the 201 response
\* for a record without variants has neither.
C23_RegistrationUrls ==
    (Registered /\ resp.status = 201) =>
        IF VariantBearing(Entry[1])
        THEN /\ resp.variants # None
             /\ DOMAIN resp.variants[1] = VariantKeys(Entry[1])
             /\ \A k \in VariantKeys(Entry[1]) :
                   resp.variants[1][k] = VariantUrl(req.assetId, k)
             /\ Entry[1].default_variant # None
             /\ resp.defaultUrl = Some(VariantUrl(req.assetId, Entry[1].default_variant[1]))
        ELSE /\ resp.variants = None
             /\ resp.defaultUrl = None

\* all four variants are registered without a default: four URLs, and the
\* default URL is the one of medium
C23_Witness ==
    /\ Registered
    /\ resp.status = 201
    /\ req.body.default_variant = None
    /\ VariantBearing(Entry[1])
    /\ VariantKeys(Entry[1]) = VariantNameSet
    /\ DOMAIN resp.variants[1] = VariantNameSet
    /\ resp.defaultUrl = Some(VariantUrl("A1", "medium"))

-----------------------------------------------------------------------------
(* C24 *)

\* C24: whatever the storage_type of the record, the variant that a
\* retrieval reads is fetched by URL when it carries a url and by key when
\* it carries an r2_key.
C24_VariantAddressing ==
    (Retrieved /\ VariantBearing(Stored) /\ resp.accesses # << >>) =>
        \E k \in VariantKeys(Stored) :
            LET v == VariantAt(Stored, k)
            IN  /\ resp.accesses[1].location \in {v.url[i] : i \in DOMAIN v.url} \cup {v.r2_key[i] : i \in DOMAIN v.r2_key}
                /\ TruthyStr(v.url) => resp.accesses[1] = [type |-> "url", location |-> v.url[1]]
                /\ TruthyStr(v.r2_key) => resp.accesses[1] = [type |-> "r2", location |-> v.r2_key[1]]

\* C24 for the variants that carry one location: the scheme is the
\* variant's own, under either storage_type of the record
VariantAddressingOfSingleLocation ==
    (Retrieved /\ VariantBearing(Stored) /\ resp.accesses # << >>) =>
        \E k \in VariantKeys(Stored) :
            LET v == VariantAt(Stored, k)
            IN  /\ resp.accesses[1].location \in {v.url[i] : i \in DOMAIN v.url} \cup {v.r2_key[i] : i \in DOMAIN v.r2_key}
                /\ (TruthyStr(v.url) /\ ~TruthyStr(v.r2_key)) => resp.accesses[1].type = "url"
                /\ (TruthyStr(v.r2_key) /\ ~TruthyStr(v.url)) => resp.accesses[1].type = "r2"

\* a variant behind a URL is fetched by URL from a record typed r2, and a
\* variant under a key by key from a record typed url
CrossedAddressing ==
    /\ Retrieved
    /\ VariantBearing(Stored)
    /\ resp.accesses # << >>
    /\ \/ Stored.storage_type = "r2" /\ resp.accesses[1].type = "url"
       \/ Stored.storage_type = "url" /\ resp.accesses[1].type = "r2"

-----------------------------------------------------------------------------
(* C25 *)

\* a retrieval has been answered for a record that is not an image and
\* carries a non-empty variants mapping all the same
NonImageWithVariants ==
    /\ Retrieved
    /\ Stored.is_image = FALSE
    /\ Stored.variants # None
    /\ Stored.variants[1] # << >>

\* the object-store call that reads the primary location of a record
PrimaryAccess(md) ==
    IF md.storage_type = "url" THEN [type |-> "url", location |-> md.url[1]]
    ELSE [type |-> "r2", location |-> md.r2_key[1]]

\* C25: a record whose is_image is false is served as a record without
\* variants even when it carries variants: a path that starts with a
\* variant name is answered 400 without any read, every other path reads
\* the primary location and the response has no X-Variant header.
C25_IsImageGatesVariants ==
    NonImageWithVariants =>
        IF Canonical(req.path) # << >>
        THEN /\ resp.status = 400
             /\ resp.accesses = << >>
        ELSE /\ resp.accesses = <<PrimaryAccess(Stored)>>
             /\ resp.status \in {200, 404, 503}
             /\ resp.status = 200 => resp.headers[1].XVariant = None

\* a non-image registered under an R2 key with medium and original
\* variants: the plain request reads the key
C25_Witness ==
    /\ NonImageWithVariants
    /\ VariantKeys(Stored) = {"medium", "original"}
    /\ req.path = << >>
    /\ resp.status = 200
    /\ resp.accesses = <<[type |-> "r2", location |-> "k0"]>>

-----------------------------------------------------------------------------
(* C26 *)

\* a retrieval has been answered with the bytes of the asset
Served == Retrieved /\ resp.status = 200

\* the size that the metadata records for what was served: the size_bytes
\* of the served variant, or of the record when it has no variants
RecordedSize ==
    IF VariantBearing(Stored)
    THEN VariantAt(Stored, Headers.XVariant[1]).size_bytes
    ELSE Stored.size_bytes

\* C26 as stated: Content-Length is the recorded size when the metadata
\* has one, and the size that the object store reports otherwise, for R2
\* keys and for URLs alike.
C26_ContentLength ==
    Served =>
        Headers.ContentLength =
            IF RecordedSize # None THEN RecordedSize ELSE Some(req.upstream.size)

\* C26 amended: Content-Length is the recorded size when that is a number
\* other than zero; failing that, for a record without variants read from
\* R2, it is the size of the R2 object when that is not zero; in every
\* other case the response has no Content-Length header.
C26_ContentLengthWhenKnown ==
    Served =>
        Headers.ContentLength =
            IF TruthyNum(RecordedSize) THEN RecordedSize
            ELSE IF /\ ~VariantBearing(Stored)
                    /\ resp.accesses[1].type = "r2"
                    /\ req.upstream.size # 0
                 THEN Some(req.upstream.size)
                 ELSE None

\* an asset behind a URL, registered without size_bytes, is served without
\* Content-Length although the origin reported a size
C26_Witness ==
    /\ Served
    /\ ~VariantBearing(Stored)
    /\ Stored.size_bytes = None
    /\ resp.accesses[1].type = "url"
    /\ req.upstream.size = 77
    /\ Headers.ContentLength = None

-----------------------------------------------------------------------------
(* C27 *)

\* the statuses that a handler can answer
StatusesOf(op) ==
    IF op = "retrieve" THEN {200, 400, 404, 503, 500} ELSE {201, 400, 500}

\* C27: every request that arrives gets a response with one of the
\* statuses of its handler, whether or not the metadata store, the object
\* store or the JSON parser fails, and once the response is sent the
\* worker takes requests again.
C27_EveryRequestAnswered ==
    /\ (pc = "running") ~> (pc = "done" /\ resp.status \in StatusesOf(req.op))
    /\ (pc = "done") ~> (pc = "idle")
    /\ [](pc = "done" => resp.status \in StatusesOf(req.op))
    /\ [](pc = "idle" => ENABLED (\E assetId \in AssetIds : ArriveRetrieval(assetId, << >>, [ok |-> FALSE, contentType |-> None, size |-> 0], "none")))

\* the object store rejects the read of a stored asset and the retrieval
\* is answered 500
C27_Witness ==
    /\ pc = "done"
    /\ req.op = "retrieve"
    /\ req.fault = "store"
    /\ kv[req.assetId] # None
    /\ resp.status = 500
    /\ resp.error = "Internal server error"
    /\ Len(resp.accesses) = 1

-----------------------------------------------------------------------------
(* C28 *)

\* C28: for every stored record with variants, the name that a retrieval
\* without selector hands to getVariantToServe is one of thumb, medium,
\* large, original, and the retrieval is not answered 500.
C28_TargetAlwaysRecognized ==
    DefaultRetrieved =>
        /\ calculateDefaultVariant(Stored) \in VariantNameSet
        /\ getVariantToServe(Stored, calculateDefaultVariant(Stored)).tag # "throw"
        /\ resp.status # 500

-----------------------------------------------------------------------------
(* C29 *)

\* C29: a retrieval that runs while the asset is registered again reads
\* the metadata store once: what it holds is the entry that the store had
\* at the read, and its response is the response for that one entry,
\* whatever is written afterwards.
C29_SingleSnapshot ==
    [][/\ (pc = "idle" /\ pc' = "read") => req'.seen = kv[req'.assetId]
       /\ (pc = "read" /\ pc' = "done") =>
             /\ req'.seen = req.seen
             /\ resp' = handleRetrieval(req.seen, req.assetId, req.path, req'.upstream)]_vars

\* the image with variants was read, the asset was registered again as a
\* URL asset before the object was fetched, and the variant of the image
\* is what is served
C29_Witness ==
    /\ pc = "done"
    /\ req.op = "retrieve"
    /\ req.seen # None
    /\ kv[req.assetId] # None
    /\ VariantBearing(req.seen[1])
    /\ ~VariantBearing(kv[req.assetId][1])
    /\ resp.status = 200
    /\ resp.headers[1].XVariant = Some("medium")
    /\ resp.accesses = <<AccessOf(VariantAt(req.seen[1], "medium"))>>

-----------------------------------------------------------------------------
(* C30 *)

\* C30: a retrieval leaves the metadata store as it is; a registration of
\* an asset id leaves the entry of every other asset id as it is and calls
\* the object store not at all.
C30_Frame ==
    [][/\ (pc = "running" /\ pc' = "done" /\ req.op = "retrieve") => kv' = kv
       /\ (pc = "running" /\ pc' = "done" /\ req.op \in {"register", "malformed"}) =>
             /\ \A id \in AssetIds \ {req.assetId} : kv'[id] = kv[id]
             /\ resp'.accesses = << >>]_vars

\* A1 is registered while the store holds another record for A2, which
\* stays
C30_Witness ==
    /\ pc = "done"
    /\ req.op = "register"
    /\ req.assetId = "A1"
    /\ resp.status = 201
    /\ kv["A2"] # None
    /\ kv["A1"] # kv["A2"]
    /\ resp.accesses = << >>

====
